---- MODULE Spec2Model ----
(***************************************************************************)
(* The adjacent-overload-signatures rule of deno_lint                      *)
(* (src/rules/adjacent_overload_signatures.rs).                            *)
(*                                                                         *)
(* lint_program walks the program with a VisitAll visitor.  Every visit_*  *)
(* handler of the visitor calls check() on the ordered member list of one  *)
(* container (script, module, namespace block, class body, type literal,   *)
(* interface body); the walk then descends into the container's children. *)
(* check() is one pass over the members with two locals, seen_methods and  *)
(* last_method, and reports through the context's diagnostic list.         *)
(*                                                                         *)
(* The members of a container are produced one at a time by the iterator   *)
(* the for loop consumes: `items` is the prefix consumed so far.           *)
(***************************************************************************)
EXTENDS Integers, Sequences, FiniteSets, TLC

VARIABLES
  corpus,        \* the family of programs the parsed file belongs to
  pending,       \* containers the walk has still to visit, next one first
  container,     \* the container check() is running on / ran on last
  items,         \* members of `container` the loop has consumed, in order
  seen_methods,  \* check(): HashSet<Method>
  last_method,   \* check(): Option<Method>
  diagnostics,   \* the context's diagnostics, in the order they were added
  consumed,      \* members consumed over the whole walk
  pc,            \* "idle" (between visits) | "loop" (inside check) | "done"
  members,       \* the slice handed to check(), where the program is given
                 \* as one member list; <<>> where members come one at a time
  other          \* a second activation of check(), suspended, where scans
                 \* are interleaved; NoActivation otherwise

vars == <<corpus, pending, container, items, seen_methods, last_method,
          diagnostics, consumed, pc, members, other>>

\* Members the walk consumes over one program.
MaxItems == 6

(***************************************************************************)
(* enum Method and Option<Method>.                                         *)
(***************************************************************************)
None == [variant |-> "None", name |-> ""]

Method(s) == [variant |-> "Method", name |-> s]

Static(s) == [variant |-> "Static", name |-> s]

CallSignature == [variant |-> "CallSignature", name |-> ""]

ConstructSignature == [variant |-> "ConstructSignature", name |-> ""]

get_name(method) ==
  CASE method.variant \in {"Method", "Static"} -> method.name
    [] method.variant = "CallSignature" -> "call"
    [] method.variant = "ConstructSignature" -> "new"

(***************************************************************************)
(* Members as the parser hands them over.  One record shape for all four   *)
(* element types (the fields a type does not have keep their blank value): *)
(*   elem       Stmt | ModuleItem | ClassMember | TsTypeElement            *)
(*   node       the enum variant of the element                            *)
(*   decl       the Decl variant of a declaration statement / export       *)
(*   key        the PropName variant of a class method's key               *)
(*   expr       the Expr variant of a TsMethodSignature key, or of the     *)
(*              expression inside a computed PropName                      *)
(*   computed   TsMethodSignature::computed                                *)
(*   sym        the identifier's sym / the string's value                  *)
(*   nested     the container the member holds inside it, if any           *)
(***************************************************************************)
Blank ==
  [elem |-> "", node |-> "", decl |-> "none", key |-> "none", expr |-> "none",
   computed |-> FALSE, sym |-> "", is_static |-> FALSE, nested |-> "none"]

\* Stmt::Decl(decl)
DeclStmt(d, name, inner) ==
  [Blank EXCEPT !.elem = "Stmt", !.node = "Decl", !.decl = d, !.sym = name,
                !.nested = inner]

\* any statement that is not a declaration
ExprStmt == [Blank EXCEPT !.elem = "Stmt", !.node = "Expr"]

\* ModuleItem::Stmt(stmt)
StmtItem(stmt) ==
  [stmt EXCEPT !.elem = "ModuleItem", !.node = "Stmt::" \o stmt.node]

\* ModuleItem::ModuleDecl(ModuleDecl::ExportDecl(ExportDecl { decl }))
ExportDeclItem(d, name, inner) ==
  [Blank EXCEPT !.elem = "ModuleItem", !.node = "ModuleDecl::ExportDecl",
                !.decl = d, !.sym = name, !.nested = inner]

\* ModuleItem::ModuleDecl(other): import, export default, export { .. }
OtherModuleDeclItem(variant) ==
  [Blank EXCEPT !.elem = "ModuleItem", !.node = "ModuleDecl::" \o variant]

\* export default function name() {}: ExportDefaultDecl { decl: DefaultDecl::Fn }
ExportDefaultFnItem(name) ==
  [OtherModuleDeclItem("ExportDefaultDecl") EXCEPT !.decl = "Fn", !.sym = name]

\* ClassMember::Method(ClassMethod { key, is_static })
ClassMethod(k, e, name, static, inner) ==
  [Blank EXCEPT !.elem = "ClassMember", !.node = "Method", !.key = k,
                !.expr = e, !.sym = name, !.is_static = static,
                !.nested = inner]

\* ClassMember::Constructor
Constructor == [Blank EXCEPT !.elem = "ClassMember", !.node = "Constructor"]

\* ClassMember::ClassProp
ClassProp(name, inner) ==
  [Blank EXCEPT !.elem = "ClassMember", !.node = "ClassProp", !.key = "Ident",
                !.sym = name, !.nested = inner]

\* TsTypeElement::TsMethodSignature(TsMethodSignature { key, computed })
TsMethodSignature(e, name, c) ==
  [Blank EXCEPT !.elem = "TsTypeElement", !.node = "TsMethodSignature",
                !.expr = e, !.sym = name, !.computed = c]

TsCallSignatureDecl ==
  [Blank EXCEPT !.elem = "TsTypeElement", !.node = "TsCallSignatureDecl"]

TsConstructSignatureDecl ==
  [Blank EXCEPT !.elem = "TsTypeElement", !.node = "TsConstructSignatureDecl"]

TsPropertySignature(name, inner) ==
  [Blank EXCEPT !.elem = "TsTypeElement", !.node = "TsPropertySignature",
                !.expr = "Ident", !.sym = name, !.nested = inner]

(***************************************************************************)
(* Option<String>                                                          *)
(***************************************************************************)
NoString == [some |-> FALSE, value |-> ""]

SomeString(s) == [some |-> TRUE, value |-> s]

\* Option::map(Method::Method)
MapMethod(opt) == IF opt.some THEN Method(opt.value) ELSE None

(***************************************************************************)
(* The identity extractor: trait ExtractMethod.                            *)
(***************************************************************************)
extract_ident_from_decl(m) ==
  IF m.decl = "Fn" THEN SomeString(m.sym) ELSE NoString

\* Faulty variant: an exported declaration has no identity.
ExportDecl_get_method_None(m) == None

ExportDecl_get_method(m) == MapMethod(extract_ident_from_decl(m))

Stmt_get_method(m) ==
  MapMethod(IF m.node = "Decl" THEN extract_ident_from_decl(m) ELSE NoString)

ModuleItem_get_method(m) ==
  CASE m.node = "ModuleDecl::ExportDecl" -> ExportDecl_get_method(m)
    [] m.node \in {"Stmt::Decl", "Stmt::Expr"} ->
         Stmt_get_method([m EXCEPT !.elem = "Stmt",
                                   !.node = IF m.node = "Stmt::Decl"
                                            THEN "Decl" ELSE "Expr"])
    [] OTHER -> None

\* swc_util::StringRepr for PropName: the key's static string, if it has one
string_repr(m) ==
  CASE m.key \in {"Ident", "Str"} -> SomeString(m.sym)
    [] m.key = "Computed" /\ m.expr \in {"Lit::Str", "Tpl"} -> SomeString(m.sym)
    [] OTHER -> NoString

\* Faulty variant: is_static is ignored.
ClassMember_get_method_IgnoreStatic(m) ==
  CASE m.node = "Method" ->
         LET k == string_repr(m)
         IN  IF ~k.some THEN None ELSE Method(k.value)
    [] m.node = "Constructor" -> Method("constructor")
    [] OTHER -> None

\* Faulty variant: a constructor has no identity.
ClassMember_get_method_NoConstructor(m) ==
  CASE m.node = "Method" ->
         LET k == string_repr(m)
         IN  IF ~k.some THEN None
             ELSE IF m.is_static THEN Static(k.value) ELSE Method(k.value)
    [] OTHER -> None

ClassMember_get_method(m) ==
  CASE m.node = "Method" ->
         LET k == string_repr(m)
         IN  IF ~k.some THEN None
             ELSE IF m.is_static THEN Static(k.value) ELSE Method(k.value)
    [] m.node = "Constructor" -> Method("constructor")
    [] OTHER -> None

\* Faulty variant: a construct signature is given the call signatures' identity.
TsTypeElement_get_method_ConstructAsCall(m) ==
  CASE m.node = "TsMethodSignature" ->
         (CASE m.expr = "Ident" -> Method(m.sym)
            [] m.expr = "Lit::Str" -> Method(m.sym)
            [] OTHER -> None)
    [] m.node = "TsCallSignatureDecl" -> CallSignature
    [] m.node = "TsConstructSignatureDecl" -> CallSignature
    [] OTHER -> None

\* Faulty variant: the signatures are identified by their display names.
TsTypeElement_get_method_ByDisplayName(m) ==
  CASE m.node = "TsMethodSignature" ->
         (CASE m.expr = "Ident" -> Method(m.sym)
            [] m.expr = "Lit::Str" -> Method(m.sym)
            [] OTHER -> None)
    [] m.node = "TsCallSignatureDecl" -> Method("call")
    [] m.node = "TsConstructSignatureDecl" -> Method("new")
    [] OTHER -> None

\* Faulty variant: only a bare identifier key names a method signature.
TsTypeElement_get_method_IdentOnly(m) ==
  CASE m.node = "TsMethodSignature" ->
         (CASE m.expr = "Ident" -> Method(m.sym)
            [] OTHER -> None)
    [] m.node = "TsCallSignatureDecl" -> CallSignature
    [] m.node = "TsConstructSignatureDecl" -> ConstructSignature
    [] OTHER -> None

TsTypeElement_get_method(m) ==
  CASE m.node = "TsMethodSignature" ->
         (CASE m.expr = "Ident" -> Method(m.sym)
            [] m.expr = "Lit::Str" -> Method(m.sym)
            [] OTHER -> None)
    [] m.node = "TsCallSignatureDecl" -> CallSignature
    [] m.node = "TsConstructSignatureDecl" -> ConstructSignature
    [] OTHER -> None

\* item.get_method(): static dispatch on the element type of the list
get_method(m) ==
  CASE m.elem = "Stmt" -> Stmt_get_method(m)
    [] m.elem = "ModuleItem" -> ModuleItem_get_method(m)
    [] m.elem = "ClassMember" -> ClassMember_get_method(m)
    [] m.elem = "TsTypeElement" -> TsTypeElement_get_method(m)

(***************************************************************************)
(* The programs under analysis.  A corpus fixes, per element type, the     *)
(* members the parser can produce.                                         *)
(***************************************************************************)
Corpora == {"script", "module", "class", "types", "signatures"}

\* programs that spell method keys in the ways the parser distinguishes
KeyCorpora == {"spellings", "templates", "computed"}

\* programs parsed as modules: exports, imports, namespace blocks
ModuleCorpora == {"module", "exports", "default_exports", "export_lists"}

\* lint_program: ProgramRef::Module or ProgramRef::Script
RootKind(c) == IF c \in ModuleCorpora THEN "Module" ELSE "Script"

\* the element type of each container's member list
ElemOf(kind) ==
  CASE kind = "Script" -> "Stmt"
    [] kind \in {"Module", "TsModuleBlock"} -> "ModuleItem"
    [] kind = "Class" -> "ClassMember"
    [] kind \in {"TsTypeLit", "TsInterfaceBody"} -> "TsTypeElement"

Vocabulary(c, elem) ==
  CASE c = "script" /\ elem = "Stmt" ->
         { DeclStmt("Fn", "foo", "none"), DeclStmt("Fn", "bar", "none"),
           DeclStmt("Fn", "baz", "none"), DeclStmt("Class", "Bar", "Class") }
    [] c = "script" /\ elem = "ClassMember" ->
         { ClassMethod("Ident", "none", "foo", FALSE, "none"),
           ClassMethod("Ident", "none", "bar", FALSE, "none"),
           ClassProp("name", "none") }
    [] c = "module" /\ elem = "ModuleItem" ->
         { ExportDeclItem("Fn", "foo", "none"),
           StmtItem(DeclStmt("Fn", "foo", "none")),
           StmtItem(DeclStmt("Fn", "bar", "none")),
           StmtItem(DeclStmt("TsModule", "Foo", "TsModuleBlock")) }
    [] c = "class" /\ elem = "Stmt" ->
         { DeclStmt("Class", "Foo", "Class") }
    [] c = "class" /\ elem = "ClassMember" ->
         { ClassMethod("Ident", "none", "foo", FALSE, "none"),
           ClassMethod("Ident", "none", "foo", TRUE, "none"),
           ClassMethod("Ident", "none", "bar", FALSE, "Class"),
           Constructor,
           ClassProp("name", "none") }
    [] c \in {"types", "signatures"} /\ elem = "Stmt" ->
         { DeclStmt("TsInterface", "Foo", "TsInterfaceBody") }
    [] c = "types" /\ elem = "TsTypeElement" ->
         { TsCallSignatureDecl, TsConstructSignatureDecl,
           TsMethodSignature("Ident", "foo", FALSE),
           TsPropertySignature("bar", "TsTypeLit") }
    [] c = "signatures" /\ elem = "TsTypeElement" ->
         { TsCallSignatureDecl, TsConstructSignatureDecl,
           TsMethodSignature("Ident", "foo", FALSE),
           TsMethodSignature("Ident", "call", FALSE),
           TsMethodSignature("Ident", "new", FALSE) }
    [] c = "pair" /\ elem = "Stmt" ->
         { DeclStmt("Class", "Foo", "Class") }
    [] c = "pair" /\ elem = "ClassMember" ->
         { ClassMethod("Ident", "none", "foo", FALSE, "none"),
           ClassMethod("Ident", "none", "bar", FALSE, "none"),
           ClassProp("name", "none") }
    [] c = "list" /\ elem = "Stmt" ->
         { DeclStmt("Fn", "foo", "none"),
           DeclStmt("Fn", "bar", "none"),
           ExprStmt }
    [] c = "exports" /\ elem = "ModuleItem" ->
         { ExportDeclItem("Fn", "foo", "none"),           \* export function foo
           StmtItem(DeclStmt("Fn", "foo", "none")),       \* function foo
           ExportDeclItem("Var", "foo", "none"),          \* export const foo
           ExportDeclItem("Class", "foo", "Class") }      \* export class foo {}
    [] c = "exports" /\ elem = "ClassMember" -> {}
    [] c = "default_exports" /\ elem = "ModuleItem" ->
         { ExportDeclItem("Fn", "foo", "none"),
           StmtItem(DeclStmt("Fn", "foo", "none")),
           ExportDefaultFnItem("foo"),                    \* export default function foo
           OtherModuleDeclItem("Import") }                \* import { x } from "y"
    [] c = "export_lists" /\ elem = "ModuleItem" ->
         { ExportDeclItem("Fn", "foo", "none"),
           StmtItem(DeclStmt("Fn", "foo", "none")),
           ExportDeclItem("TsTypeAlias", "foo", "none"),  \* export type foo = number
           OtherModuleDeclItem("ExportNamed") }           \* export { foo }
    [] c \in KeyCorpora /\ elem = "Stmt" ->
         { DeclStmt("TsInterface", "Foo", "TsInterfaceBody"),
           DeclStmt("TsTypeAlias", "Foo", "TsTypeLit"),
           DeclStmt("Class", "Foo", "Class") }
    [] c = "spellings" /\ elem = "TsTypeElement" ->
         { TsMethodSignature("Ident", "foo", FALSE),      \* foo(): void
           TsMethodSignature("Lit::Str", "foo", FALSE),   \* 'foo'(): void
           TsMethodSignature("Lit::Str", "foo", TRUE),    \* ['foo'](): void
           TsMethodSignature("Ident", "bar", FALSE) }
    [] c = "spellings" /\ elem = "ClassMember" ->
         { ClassMethod("Ident", "none", "foo", FALSE, "none"),
           ClassMethod("Str", "none", "foo", FALSE, "none"),
           ClassMethod("Computed", "Lit::Str", "foo", FALSE, "none"),
           ClassMethod("Ident", "none", "bar", FALSE, "none") }
    [] c = "templates" /\ elem = "TsTypeElement" ->
         { TsMethodSignature("Ident", "foo", FALSE),
           TsMethodSignature("Tpl", "foo", TRUE),         \* [`foo`](): void
           TsMethodSignature("Ident", "bar", FALSE) }
    [] c = "templates" /\ elem = "ClassMember" ->
         { ClassMethod("Ident", "none", "foo", FALSE, "none"),
           ClassMethod("Computed", "Tpl", "foo", FALSE, "none"),
           ClassMethod("Ident", "none", "bar", FALSE, "none") }
    [] c = "computed" /\ elem = "TsTypeElement" ->
         { TsMethodSignature("Ident", "foo", FALSE),
           TsMethodSignature("Member", "Symbol.iterator", TRUE),
           TsMethodSignature("Ident", "foo", TRUE),       \* [foo](): void
           TsMethodSignature("Ident", "bar", FALSE) }
    [] c = "computed" /\ elem = "ClassMember" ->
         { ClassMethod("Ident", "none", "foo", FALSE, "none"),
           ClassMethod("Computed", "Member", "Symbol.iterator", FALSE, "none"),
           ClassMethod("Computed", "Ident", "foo", FALSE, "none"),
           ClassMethod("Ident", "none", "bar", FALSE, "none") }
    [] OTHER -> {}

(***************************************************************************)
(* The diagnostic sink.                                                    *)
(***************************************************************************)
\* Faulty variant: the diagnostic is anchored one member too early.
SpanOf_Previous(path, i) == Append(path, i - 1)

\* Span of the i-th member of the container at `path`: positions compare in
\* source order when compared as paths from the root.
SpanOf(path, i) == Append(path, i)

\* Faulty variant: a name is reported once per scan, not once per reappearance.
add_diagnostic_OncePerName(diags, span, fn_name) ==
  IF \E k \in 1..Len(diags) :
       diags[k].message = "All '" \o fn_name \o "' signatures should be adjacent"
  THEN diags
  ELSE Append(diags,
         [span |-> span,
          code |-> "adjacent-overload-signatures",
          message |-> "All '" \o fn_name \o "' signatures should be adjacent",
          hint |-> "Make sure all overloaded signatures are grouped together"])

\* Faulty variant: the diagnostic is put in front of the earlier ones.
add_diagnostic_Prepend(diags, span, fn_name) ==
  <<[span |-> span,
     code |-> "adjacent-overload-signatures",
     message |-> "All '" \o fn_name \o "' signatures should be adjacent",
     hint |-> "Make sure all overloaded signatures are grouped together"]>>
  \o diags

\* Faulty variant: the diagnostic is added a second time.
add_diagnostic_Twice(diags, span, fn_name) ==
  LET d == [span |-> span,
            code |-> "adjacent-overload-signatures",
            message |-> "All '" \o fn_name \o "' signatures should be adjacent",
            hint |-> "Make sure all overloaded signatures are grouped together"]
  IN  Append(Append(diags, d), d)

\* AdjacentOverloadSignaturesVisitor::add_diagnostic
add_diagnostic(diags, span, fn_name) ==
  Append(diags,
         [span |-> span,
          code |-> "adjacent-overload-signatures",
          message |-> "All '" \o fn_name \o "' signatures should be adjacent",
          hint |-> "Make sure all overloaded signatures are grouped together"])

(***************************************************************************)
(* check(): the locals and the loop body.                                  *)
(***************************************************************************)
\* Faulty variant: the set of the previous call of check() is kept.
NewSeenMethods_Kept == seen_methods

\* let mut seen_methods = HashSet::new();
NewSeenMethods == {}

\* let mut last_method = None;
NewLastMethod == None

\* Faulty variant: the lookup in seen_methods is dropped.
IsViolation_LastOnly(seen, last, method) == last # method

\* Faulty variant: the comparison with last_method is dropped.
IsViolation_SeenOnly(seen, last, method) == method \in seen

\* Faulty variant: a member without identity does not break a run.
IsViolation_GapJoins(seen, last, method) ==
  method \in seen /\ last # method /\ last # None

\* seen_methods.contains(&method) && last_method.as_ref() != Some(&method)
IsViolation(seen, last, method) == method \in seen /\ last # method

\* Faulty variant: the set holds the latest identity only.
SeenAfter_OnlyLatest(seen, method) == IF method # None THEN {method} ELSE seen

\* Faulty variant: the insert is missing.
SeenAfter_NoInsert(seen, method) == seen

\* Faulty variant: a member without identity clears the set.
SeenAfter_GapClears(seen, method) ==
  IF method # None THEN seen \cup {method} ELSE {}

\* seen_methods.insert(method.clone()), on the Some branch only
SeenAfter(seen, method) == IF method # None THEN seen \cup {method} ELSE seen

\* Faulty variant: last_method is never set to Some.
LastAfter_AlwaysNone(method) == None

\* last_method = Some(method) / last_method = None
LastAfter(method) == method

NoContainer == [kind |-> "none", path |-> <<>>]

\* The containers the walk finds inside the members of the container at
\* `path`, in member order.
RECURSIVE Children(_, _, _)
Children(path, ms, i) ==
  IF i > Len(ms) THEN <<>>
  ELSE (IF ms[i].nested # "none"
        THEN <<[kind |-> ms[i].nested, path |-> Append(path, i)]>>
        ELSE <<>>) \o Children(path, ms, i + 1)

\* an activation of check(): the container, the loop's position and the
\* two locals
Activation(c, ms, seen, last, at) ==
  [container |-> c, items |-> ms, seen_methods |-> seen, last_method |-> last,
   pc |-> at]

NoActivation == Activation(NoContainer, <<>>, {}, None, "idle")

InitWalk(corpora) ==
  /\ corpus \in corpora
  /\ pending = <<[kind |-> RootKind(corpus), path |-> <<>>]>>
  /\ container = NoContainer
  /\ items = <<>>
  /\ seen_methods = {}
  /\ last_method = None
  /\ diagnostics = <<>>
  /\ consumed = 0
  /\ pc = "idle"
  /\ other = NoActivation

InitWith(corpora) ==
  /\ InitWalk(corpora)
  /\ members = <<>>

\* visit_script / visit_module / visit_ts_module_block / visit_class /
\* visit_ts_type_lit / visit_ts_interface_body: enter check() on the next
\* container of the walk.
Visit ==
  /\ pc = "idle"
  /\ pending # <<>>
  /\ container' = Head(pending)
  /\ pending' = Tail(pending)
  /\ items' = <<>>
  /\ seen_methods' = NewSeenMethods
  /\ last_method' = NewLastMethod
  /\ pc' = "loop"
  /\ UNCHANGED <<corpus, diagnostics, consumed, members, other>>

\* Faulty variant: seen_methods is shared by all activations of check().
Step_SharedSeen ==
  /\ pc = "loop"
  /\ consumed < MaxItems
  /\ \E item \in Vocabulary(corpus, ElemOf(container.kind)) :
     /\ LET method == get_method(item)
            span == SpanOf(container.path, Len(items) + 1)
            shared == seen_methods \cup other.seen_methods
        IN  /\ diagnostics' =
                  IF method # None /\ IsViolation(shared, last_method, method)
                  THEN add_diagnostic(diagnostics, span, get_name(method))
                  ELSE diagnostics
            /\ seen_methods' = SeenAfter(seen_methods, method)
            /\ last_method' = LastAfter(method)
     /\ items' = Append(items, item)
     /\ consumed' = consumed + 1
     /\ UNCHANGED <<corpus, pending, container, pc, members, other>>

\* One iteration of `for item in items`.
Step ==
  /\ pc = "loop"
  /\ consumed < MaxItems
  /\ \E item \in Vocabulary(corpus, ElemOf(container.kind)) :
     /\ LET method == get_method(item)
            span == SpanOf(container.path, Len(items) + 1)
        IN  /\ diagnostics' =
                  IF method # None /\ IsViolation(seen_methods, last_method, method)
                  THEN add_diagnostic(diagnostics, span, get_name(method))
                  ELSE diagnostics
            /\ seen_methods' = SeenAfter(seen_methods, method)
            /\ last_method' = LastAfter(method)
     /\ items' = Append(items, item)
     /\ consumed' = consumed + 1
     /\ UNCHANGED <<corpus, pending, container, pc, members, other>>

\* The iterator is exhausted: check() returns, and the walk goes on with the
\* containers inside this one before the ones after it.
Return ==
  /\ pc = "loop"
  /\ pending' = Children(container.path, items, 1) \o pending
  /\ pc' = "idle"
  /\ UNCHANGED <<corpus, container, items, seen_methods, last_method,
                 diagnostics, consumed, members, other>>

\* lint_program returns once the walk has visited every container.
Finish ==
  /\ pc = "idle"
  /\ pending = <<>>
  /\ other.pc # "loop"
  /\ pc' = "done"
  /\ UNCHANGED <<corpus, pending, container, items, seen_methods, last_method,
                 diagnostics, consumed, members, other>>

Next ==
  \/ Visit
  \/ Step
  \/ Return
  \/ Finish

Init == InitWith(Corpora)

Spec == Init /\ [][Next]_vars

InitKeys == InitWith(KeyCorpora)

SpecKeys == InitKeys /\ [][Next]_vars

(***************************************************************************)
(* check(&script.body) on a member list that is given in full: the for     *)
(* loop takes the slice's elements front to back and ends with the slice.  *)
(***************************************************************************)
\* every script body of at most MaxItems statements
MemberLists ==
  UNION {[1..n -> Vocabulary("list", "Stmt")] : n \in 0..MaxItems}

\* Faulty variant: the iterator also ends behind a member without identity.
IteratorDone_AtGap(list, n) ==
  n = Len(list) \/ (n > 0 /\ get_method(list[n]) = None)

\* slice::Iter::next() returns None: n elements were taken, none is left
IteratorDone(list, n) == n = Len(list)

InitLists ==
  /\ InitWalk({"list"})
  /\ members \in MemberLists

\* One iteration of `for item in items` on the given slice.
StepList ==
  /\ ~IteratorDone(members, Len(items))
  /\ Step
  /\ items' = Append(items, members[Len(items) + 1])

\* The slice is exhausted: check() returns.
ReturnList ==
  /\ IteratorDone(members, Len(items))
  /\ Return

NextLists ==
  \/ Visit
  \/ StepList
  \/ ReturnList
  \/ Finish

\* lint_program runs to its end: a step that can be taken is taken
SpecLists == InitLists /\ [][NextLists]_vars /\ WF_vars(NextLists)

(***************************************************************************)
(* Scans run by a framework that interleaves them: the running activation  *)
(* of check() is suspended between two iterations (or before its return)   *)
(* and the suspended one, if any, is resumed; with none suspended the walk *)
(* goes on to the next container.                                          *)
(***************************************************************************)
Switch ==
  /\ pc = "loop" \/ other.pc = "loop"
  /\ other' = Activation(container, items, seen_methods, last_method, pc)
  /\ container' = other.container
  /\ items' = other.items
  /\ seen_methods' = other.seen_methods
  /\ last_method' = other.last_method
  /\ pc' = other.pc
  /\ UNCHANGED <<corpus, pending, diagnostics, consumed, members>>

InitInterleaved == InitWith({"pair"})

NextInterleaved ==
  \/ Visit
  \/ Step
  \/ Return
  \/ Finish
  \/ Switch

SpecInterleaved == InitInterleaved /\ [][NextInterleaved]_vars

InitExports == InitWith(ModuleCorpora)

SpecExports == InitExports /\ [][Next]_vars

(***************************************************************************)
(* Vocabulary of the properties: the scan of the current container.        *)
(***************************************************************************)
N == Len(items)

\* the optional identity of the i-th member consumed
IdAt(i) == get_method(items[i])

\* d was reported for a member of the current container
InContainer(d) ==
  /\ Len(d.span) = Len(container.path) + 1
  /\ SubSeq(d.span, 1, Len(container.path)) = container.path

\* the diagnostics of the current container, in the order they were added
Reports == SelectSeq(diagnostics, InContainer)

\* the member a diagnostic of the current container is anchored at
MemberOf(d) == d.span[Len(d.span)]

\* the members of the current container that were reported
Flagged == {MemberOf(Reports[k]) : k \in 1..Len(Reports)}

MessageFor(name) == "All '" \o name \o "' signatures should be adjacent"

Hint == "Make sure all overloaded signatures are grouped together"

\* every occurrence of an identity among members lo..hi lies in one run
ContiguousRuns(lo, hi) ==
  \A i \in lo..hi : \A j \in (i + 1)..hi :
    (IdAt(i) # None /\ IdAt(i) = IdAt(j)) =>
      \A k \in i..j : IdAt(k) = IdAt(i)

(***************************************************************************)
(* C1.  check() reports member i if and only if member i has an identity,  *)
(* an earlier member of the same container has the same identity, and the  *)
(* member right before i does not have it.  Nothing else is reported, and  *)
(* no member is reported twice.                                            *)
(***************************************************************************)
C1_ReportedIffReappearsAfterBreak ==
  container # NoContainer =>
    /\ \A i \in 1..N :
         (i \in Flagged) <=>
           /\ IdAt(i) # None
           /\ \E j \in 1..(i - 1) : IdAt(j) = IdAt(i)
           /\ IdAt(i - 1) # IdAt(i)
    /\ Flagged \subseteq 1..N
    /\ Len(Reports) = Cardinality(Flagged)

\* A scan that reported a reappearance and also passed over an adjacent
\* repetition.
C1_Witness ==
  /\ container # NoContainer
  /\ Flagged # {}
  /\ \E i \in 2..N : IdAt(i) # None /\ IdAt(i - 1) = IdAt(i) /\ i \notin Flagged

(***************************************************************************)
(* C2.  No false positives: when the occurrences of every identity form    *)
(* one contiguous run, check() reports nothing; [A, A, B] with no later A  *)
(* reports nothing.                                                        *)
(***************************************************************************)
C2_NoFalsePositive ==
  (container # NoContainer /\ ContiguousRuns(1, N)) => Reports = <<>>

\* check() has returned from [A, A, B].
C2_Witness ==
  /\ pc = "idle"
  /\ container # NoContainer
  /\ N = 3
  /\ IdAt(1) # None /\ IdAt(2) = IdAt(1)
  /\ IdAt(3) # None /\ IdAt(3) # IdAt(1)
  /\ Reports = <<>>

(***************************************************************************)
(* C3.  Single-gap detection.  The members consumed are a run of identity  *)
(* A (members 1..k), then members with other identities, then A again      *)
(* (member N).                                                             *)
(***************************************************************************)
RunGapReappearance(k) ==
  /\ k >= 1 /\ k <= N - 2
  /\ IdAt(N) # None
  /\ \A i \in 1..k : IdAt(i) = IdAt(N)
  /\ \A i \in (k + 1)..(N - 1) : IdAt(i) # None /\ IdAt(i) # IdAt(N)

OneReportAtLastMember ==
  /\ Len(Reports) = 1
  /\ Reports[1].span = Append(container.path, N)
  /\ Reports[1].message = MessageFor(get_name(IdAt(N)))
  /\ Reports[1].hint = Hint

\* C3 as claimed: whatever the intervening members of other identities are,
\* exactly one diagnostic is emitted, at the reappearing member.
C3_AsClaimed ==
  (container # NoContainer /\ \E k \in 1..N : RunGapReappearance(k))
    => OneReportAtLastMember

\* C3 as amended: the same, provided each identity among the intervening
\* members itself forms one contiguous run (otherwise the intervening
\* members are reported too).
C3_SingleGapDetection ==
  (container # NoContainer
     /\ \E k \in 1..N : RunGapReappearance(k) /\ ContiguousRuns(k + 1, N - 1))
    => OneReportAtLastMember

\* foo, foo, bar, baz, foo: reported once, at the fifth member.
C3_Witness ==
  /\ container # NoContainer
  /\ N = 5
  /\ RunGapReappearance(2)
  /\ IdAt(3) # IdAt(4)
  /\ OneReportAtLastMember

(***************************************************************************)
(* C4.  Non-cascading: the members of identity A that directly follow a    *)
(* reported member of identity A are not reported; [A, A, B, A, A] gives   *)
(* exactly one diagnostic, at member 4.                                    *)
(***************************************************************************)
IsAABAA ==
  /\ N = 5
  /\ IdAt(1) # None
  /\ IdAt(2) = IdAt(1)
  /\ IdAt(3) # None /\ IdAt(3) # IdAt(1)
  /\ IdAt(4) = IdAt(1)
  /\ IdAt(5) = IdAt(1)

C4_NonCascading ==
  container # NoContainer =>
    /\ \A i \in Flagged : \A j \in (i + 1)..N :
         (\A k \in i..j : IdAt(k) = IdAt(i)) => j \notin Flagged
    /\ IsAABAA => (Flagged = {4} /\ Len(Reports) = 1)

C4_Witness ==
  /\ container # NoContainer
  /\ IsAABAA
  /\ Flagged = {4}

(***************************************************************************)
(* C5.  A member without identity sets last_method to None and leaves      *)
(* seen_methods alone: an identity that comes back after members without   *)
(* identity only is reported.                                              *)
(***************************************************************************)
C5_GapResetsLastKeepsSeen ==
  container # NoContainer =>
    /\ (N > 0 /\ IdAt(N) = None) =>
         /\ last_method = None
         /\ \A i \in 1..N : IdAt(i) # None => IdAt(i) \in seen_methods
    /\ \A i \in 1..N : \A j \in (i + 2)..N :
         ( /\ IdAt(i) # None
           /\ IdAt(j) = IdAt(i)
           /\ \A k \in (i + 1)..(j - 1) : IdAt(k) = None )
         => j \in Flagged

\* A, a member without identity, A: the second A is reported.
C5_Witness ==
  /\ container # NoContainer
  /\ N = 3
  /\ IdAt(1) # None
  /\ IdAt(2) = None
  /\ IdAt(3) = IdAt(1)
  /\ Flagged = {3}

(***************************************************************************)
(* C6.  One diagnostic per reappearance: for every identity, the number of *)
(* diagnostics reported for members of that identity, each naming it, is   *)
(* the number of its maximal runs minus one (zero if it does not occur).   *)
(***************************************************************************)
\* the identities the members of the current container can have
Identities ==
  {get_method(m) : m \in Vocabulary(corpus, ElemOf(container.kind))} \ {None}

\* the members that start a maximal run of identity id
RunStarts(id) == {i \in 1..N : IdAt(i) = id /\ (i = 1 \/ IdAt(i - 1) # id)}

\* the diagnostics reported for members of identity id
ReportsFor(id) ==
  {k \in 1..Len(Reports) :
     MemberOf(Reports[k]) \in 1..N /\ IdAt(MemberOf(Reports[k])) = id}

C6_OneReportPerBrokenRun ==
  container # NoContainer =>
    /\ \A id \in Identities :
         /\ Cardinality(ReportsFor(id)) =
              IF RunStarts(id) = {} THEN 0 ELSE Cardinality(RunStarts(id)) - 1
         /\ \A k \in ReportsFor(id) :
              Reports[k].message = MessageFor(get_name(id))
    /\ \A k \in 1..Len(Reports) : MemberOf(Reports[k]) \in 1..N

\* new, foo, new, bar, new: two diagnostics, both for `new`.
C6_Witness ==
  /\ container.kind = "TsInterfaceBody"
  /\ N = 5
  /\ \A i \in {1, 3, 5} : items[i].node = "TsConstructSignatureDecl"
  /\ \A i \in {2, 4} : items[i].node = "TsMethodSignature"
  /\ items[2].sym # items[4].sym
  /\ Len(Reports) = 2
  /\ \A k \in 1..2 : Reports[k].message = "All 'new' signatures should be adjacent"

(***************************************************************************)
(* C7.  In a class body a static method and an instance method of the same *)
(* name are different identities: a method is reported exactly when an     *)
(* earlier method has the same name and the same staticness and the member *)
(* right before it is not such a method.  static test, untest, test gives  *)
(* no diagnostic.                                                          *)
(***************************************************************************)
IsNamedMethod(i) == items[i].node = "Method" /\ string_repr(items[i]).some

SameNameAndStaticness(i, j) ==
  /\ IsNamedMethod(j)
  /\ string_repr(items[j]).value = string_repr(items[i]).value
  /\ items[j].is_static = items[i].is_static

C7_StaticAndInstanceAreSeparate ==
  container.kind = "Class" =>
    \A i \in 1..N : IsNamedMethod(i) =>
      ( (i \in Flagged) <=>
          /\ \E j \in 1..(i - 1) : SameNameAndStaticness(i, j)
          /\ ~SameNameAndStaticness(i, i - 1) )

\* check() has returned from static foo, bar, foo without a diagnostic.
C7_Witness ==
  /\ pc = "idle"
  /\ container.kind = "Class"
  /\ N = 3
  /\ \A i \in 1..3 : items[i].node = "Method"
  /\ items[1].is_static /\ ~items[3].is_static
  /\ items[1].sym = items[3].sym
  /\ items[2].sym # items[1].sym
  /\ Reports = <<>>

(***************************************************************************)
(* C8.  No state is shared between containers: check() starts every        *)
(* container with an empty seen_methods and last_method = None,            *)
(* seen_methods holds identities of this container's members only, and a   *)
(* member is reported only because of an earlier member of its own         *)
(* container.                                                              *)
(***************************************************************************)
C8_FreshStatePerContainer ==
  container # NoContainer =>
    /\ N = 0 => (seen_methods = {} /\ last_method = None)
    /\ seen_methods = {IdAt(i) : i \in 1..N} \ {None}
    /\ last_method = IF N = 0 THEN None ELSE IdAt(N)
    /\ \A i \in Flagged :
         i \in 1..N /\ \E j \in 1..(i - 1) : IdAt(j) = IdAt(i)

\* The top level reported a broken run of function foo; the class nested in
\* it has a method foo and nothing is reported for the class.
C8_Witness ==
  /\ container.kind = "Class"
  /\ Len(container.path) = 1
  /\ \E k \in 1..Len(diagnostics) :
       Len(diagnostics[k].span) = 1 /\ diagnostics[k].message = MessageFor("foo")
  /\ \E i \in 1..N : IdAt(i) = Method("foo")
  /\ Reports = <<>>

(***************************************************************************)
(* C9.  In an interface body or type literal all call signatures share one *)
(* identity, displayed as `call`, and all construct signatures another,    *)
(* displayed as `new`.                                                     *)
(***************************************************************************)
IsTypeElements == container.kind \in {"TsTypeLit", "TsInterfaceBody"}

IsSignature(i) ==
  items[i].node \in {"TsCallSignatureDecl", "TsConstructSignatureDecl"}

DisplayName(node) == IF node = "TsCallSignatureDecl" THEN "call" ELSE "new"

ReportedAs(i, name) ==
  /\ i \in Flagged
  /\ \A k \in 1..Len(Reports) :
       MemberOf(Reports[k]) = i => Reports[k].message = MessageFor(name)

\* C9 as claimed: a signature that reappears after a member that is not a
\* signature is reported under its display name; a signature of the other
\* kind neither breaks a run (between two signatures of one kind it does not
\* get the second reported) nor joins it (a signature is reported only when
\* an earlier signature of its own kind exists).
C9_AsClaimed ==
  IsTypeElements =>
    \A i \in 1..N : IsSignature(i) =>
      /\ ( /\ \E j \in 1..(i - 1) : items[j].node = items[i].node
           /\ ~IsSignature(i - 1) )
         => ReportedAs(i, DisplayName(items[i].node))
      /\ (\E j \in 1..(i - 2) :
            /\ items[j].node = items[i].node
            /\ \A k \in (j + 1)..(i - 1) :
                 IsSignature(k) /\ items[k].node # items[i].node)
         => i \notin Flagged
      /\ i \in Flagged => \E j \in 1..(i - 1) : items[j].node = items[i].node

\* C9 as amended: a signature is reported, under its display name, exactly
\* when an earlier signature of its kind exists and the member right before
\* it is not a signature of its kind; a signature of the other kind is such
\* an intervening member (it breaks the run, and never joins it).
C9_SignaturesGroupByKind ==
  IsTypeElements =>
    \A i \in 1..N : IsSignature(i) =>
      /\ (i \in Flagged) <=>
           /\ \E j \in 1..(i - 1) : items[j].node = items[i].node
           /\ items[i - 1].node # items[i].node
      /\ i \in Flagged => ReportedAs(i, DisplayName(items[i].node))

\* call, new, call, new: the second call signature is reported as `call`
\* and the second construct signature as `new`.
C9_Witness ==
  /\ IsTypeElements
  /\ N = 4
  /\ items[1].node = "TsCallSignatureDecl"
  /\ items[2].node = "TsConstructSignatureDecl"
  /\ items[3].node = "TsCallSignatureDecl"
  /\ items[4].node = "TsConstructSignatureDecl"
  /\ Flagged = {3, 4}
  /\ ReportedAs(3, "call")
  /\ ReportedAs(4, "new")

(***************************************************************************)
(* C10.  A method signature named `call` (or `new`) is not in the group of *)
(* the call (or construct) signatures although it is displayed alike: a    *)
(* named method signature is reported exactly when an earlier method       *)
(* signature has its name and the member right before it is not one, and a *)
(* signature only when an earlier signature of its kind exists.            *)
(***************************************************************************)
IsNamedSignature(i) ==
  items[i].node = "TsMethodSignature" /\ items[i].expr \in {"Ident", "Lit::Str"}

SameMethodName(i, j) == IsNamedSignature(j) /\ items[j].sym = items[i].sym

C10_NamedCallIsNotCallSignature ==
  IsTypeElements =>
    /\ \A i \in 1..N : IsNamedSignature(i) =>
         /\ (i \in Flagged) <=>
              /\ \E j \in 1..(i - 1) : SameMethodName(i, j)
              /\ ~SameMethodName(i, i - 1)
         /\ i \in Flagged => ReportedAs(i, items[i].sym)
    /\ \A i \in 1..N : (IsSignature(i) /\ i \in Flagged) =>
         \E j \in 1..(i - 1) : items[j].node = items[i].node

\* check() has returned from call signature, call signature, foo(), call()
\* without a diagnostic.
C10_Witness ==
  /\ pc = "idle"
  /\ IsTypeElements
  /\ N = 4
  /\ items[1].node = "TsCallSignatureDecl"
  /\ items[2].node = "TsCallSignatureDecl"
  /\ IsNamedSignature(3) /\ items[3].sym = "foo"
  /\ IsNamedSignature(4) /\ items[4].sym = "call"
  /\ get_name(IdAt(1)) = get_name(IdAt(4))
  /\ Reports = <<>>

(***************************************************************************)
(* C11.  A class constructor is scanned as the instance method named       *)
(* "constructor": it is reported, as 'constructor', exactly when an        *)
(* earlier member of the class is a constructor (or an instance method of  *)
(* that name) and the member right before it is not; adjacent constructor  *)
(* overloads are never reported.                                           *)
(***************************************************************************)
IsConstructorLike(i) ==
  \/ items[i].node = "Constructor"
  \/ /\ IsNamedMethod(i)
     /\ string_repr(items[i]).value = "constructor"
     /\ ~items[i].is_static

C11_ConstructorIsPlainMember ==
  container.kind = "Class" =>
    \A i \in 1..N : items[i].node = "Constructor" =>
      /\ IdAt(i) = Method("constructor")
      /\ (i \in Flagged) <=>
           /\ \E j \in 1..(i - 1) : IsConstructorLike(j)
           /\ ~IsConstructorLike(i - 1)
      /\ i \in Flagged => ReportedAs(i, "constructor")

\* constructor, field, constructor, method, constructor: the third and the
\* fifth member are reported.
C11_Witness ==
  /\ container.kind = "Class"
  /\ N = 5
  /\ \A i \in {1, 3, 5} : items[i].node = "Constructor"
  /\ items[2].node = "ClassProp"
  /\ items[4].node = "Method"
  /\ Flagged = {3, 5}
  /\ ReportedAs(3, "constructor") /\ ReportedAs(5, "constructor")

(***************************************************************************)
(* Key spellings.  The three spellings of a method key that name it by a   *)
(* string known from the key alone: the bare identifier foo, the quoted    *)
(* string 'foo' and the computed string literal ['foo'].                   *)
(***************************************************************************)
IsIdentKey(i) ==
  \/ items[i].node = "Method" /\ items[i].key = "Ident"
  \/ /\ items[i].node = "TsMethodSignature"
     /\ items[i].expr = "Ident" /\ ~items[i].computed

IsQuotedKey(i) ==
  \/ items[i].node = "Method" /\ items[i].key = "Str"
  \/ /\ items[i].node = "TsMethodSignature"
     /\ items[i].expr = "Lit::Str" /\ ~items[i].computed

IsComputedStringKey(i) ==
  \/ /\ items[i].node = "Method"
     /\ items[i].key = "Computed" /\ items[i].expr = "Lit::Str"
  \/ /\ items[i].node = "TsMethodSignature"
     /\ items[i].expr = "Lit::Str" /\ items[i].computed

IsSpelled(i) == IsIdentKey(i) \/ IsQuotedKey(i) \/ IsComputedStringKey(i)

IsMemberBody == container.kind \in {"Class", "TsInterfaceBody", "TsTypeLit"}

\* C12: in a class body, interface body or type literal, a method keyed by
\* the bare identifier foo, by the quoted string 'foo' or by the computed
\* string literal ['foo'] has the identity Method("foo") whatever the
\* spelling; where every member scanned so far is spelled in one of these
\* ways, a member is flagged exactly when an earlier member has the same
\* name and the member just before it has not, and it is reported under
\* that name.
C12_SpellingsAreOneIdentity ==
  IsMemberBody =>
    /\ \A i \in 1..N : IsSpelled(i) /\ ~items[i].is_static =>
          IdAt(i) = Method(items[i].sym)
    /\ (\A i \in 1..N : IsSpelled(i) /\ ~items[i].is_static) =>
          \A i \in 1..N :
            /\ (i \in Flagged) <=>
                 /\ \E j \in 1..(i - 1) : items[j].sym = items[i].sym
                 /\ items[i - 1].sym # items[i].sym
            /\ i \in Flagged => ReportedAs(i, items[i].sym)

C12_Witness ==
  /\ container.kind = "TsInterfaceBody"
  /\ N = 5
  /\ IsIdentKey(1) /\ IsQuotedKey(2) /\ IsComputedStringKey(3)
  /\ \A i \in {1, 2, 3, 5} : items[i].sym = "foo"
  /\ items[4].sym = "bar"
  /\ IsQuotedKey(5)
  /\ Flagged = {5}
  /\ ReportedAs(5, "foo")

\* [`foo`]: a computed key holding a template literal without substitutions
IsTemplateKey(i) ==
  \/ /\ items[i].node = "Method"
     /\ items[i].key = "Computed" /\ items[i].expr = "Tpl"
  \/ /\ items[i].node = "TsMethodSignature"
     /\ items[i].expr = "Tpl" /\ items[i].computed

\* C13: in a class body, interface body or type literal, a method keyed by
\* the computed template literal [`foo`] has the identity Method("foo"), so
\* it is flagged, as 'foo', exactly when an earlier member has that identity
\* and the member just before it has not (foo, bar, [`foo`] flags the third).
C13_AsClaimed ==
  IsMemberBody =>
    \A i \in 1..N : IsTemplateKey(i) =>
      /\ IdAt(i) = Method(items[i].sym)
      /\ (i \in Flagged) <=>
           /\ \E j \in 1..(i - 1) : IdAt(j) = Method(items[i].sym)
           /\ IdAt(i - 1) # Method(items[i].sym)

\* [Symbol.iterator], [foo]: a computed key that is neither a string literal
\* nor a template literal
IsComputedNonLiteral(i) ==
  \/ /\ items[i].node = "Method"
     /\ items[i].key = "Computed" /\ items[i].expr \notin {"Lit::Str", "Tpl"}
  \/ /\ items[i].node = "TsMethodSignature"
     /\ items[i].computed /\ items[i].expr \notin {"Lit::Str", "Tpl"}

\* C14: a method whose key is computed and is not a string or template
\* literal has no identity: it is never flagged, never enters seen_methods
\* (so no later member is flagged on its account) and resets last_method.
C14_AsClaimed ==
  IsMemberBody =>
    /\ \A i \in 1..N : IsComputedNonLiteral(i) =>
          IdAt(i) = None /\ i \notin Flagged
    /\ (N > 0 /\ IsComputedNonLiteral(N)) => last_method = None
    /\ (\A i \in 1..N : IsComputedNonLiteral(i)) => seen_methods = {}

(***************************************************************************)
(* The diagnostics of a scan as a function of the identities alone.        *)
(***************************************************************************)
\* the optional identities of the members consumed, in order
IdSeq == [i \in 1..N |-> IdAt(i)]

\* a diagnostic without its container: the member index stands for the span
Relative(d) ==
  [member |-> MemberOf(d), code |-> d.code, message |-> d.message,
   hint |-> d.hint]

RelativeReports == [k \in 1..Len(Reports) |-> Relative(Reports[k])]

\* position n of ids carries an identity that occurred before and that the
\* position just before n does not carry
Breaks(ids, n) ==
  /\ ids[n] # None
  /\ \E j \in 1..(n - 1) : ids[j] = ids[n]
  /\ ids[n - 1] # ids[n]

RECURSIVE ExpectedFrom(_, _)
ExpectedFrom(ids, n) ==
  IF n = 0 THEN <<>>
  ELSE LET rest == ExpectedFrom(ids, n - 1)
       IN  IF Breaks(ids, n)
           THEN Append(rest, [member |-> n,
                              code |-> "adjacent-overload-signatures",
                              message |-> MessageFor(get_name(ids[n])),
                              hint |-> Hint])
           ELSE rest

\* C15: the diagnostics of a scan, taken relative to the container (member
\* index instead of span), are a function of the sequence of optional
\* identities only: whatever the container (script, module, namespace
\* block, class, interface, type literal) and whatever the members are,
\* the same identity sequence gives the same number of diagnostics at the
\* same member indices with the same message.
C15_CrossShapeEquivalence ==
  container.kind # "none" =>
    RelativeReports = ExpectedFrom(IdSeq, N)

\* foo, gap, foo as top-level statements and again as class members: both
\* scans report member 3 with the same text
C15_Witness ==
  /\ container.kind = "Class"
  /\ N = 3
  /\ IdSeq = <<Method("foo"), None, Method("foo")>>
  /\ Len(diagnostics) = 2
  /\ diagnostics[1].span = <<3>>
  /\ items[1].elem = "ClassMember"
  /\ InContainer(diagnostics[2])
  /\ Relative(diagnostics[1]) = Relative(diagnostics[2])
  /\ Relative(diagnostics[2]).member = 3

\* C16: the diagnostics of one scan were added in member order, one per
\* flagged member: the members of successive diagnostics of the container
\* strictly increase.
C16_SinkCallsInMemberOrder ==
  \A k, l \in 1..Len(Reports) :
    k < l => MemberOf(Reports[k]) < MemberOf(Reports[l])

C16_Witness ==
  /\ Len(Reports) = 2
  /\ MemberOf(Reports[1]) = 3
  /\ MemberOf(Reports[2]) = 4
  /\ Flagged = {3, 4}
  /\ N = 4

(***************************************************************************)
(* The order of the diagnostics of a whole program.  A span is the path of *)
(* member indices from the program's root to the member.                   *)
(***************************************************************************)
\* s comes before t in the order of paths: at the first index where they
\* differ s is smaller, or s is a proper prefix of t
PathBefore(s, t) ==
  \E i \in 1..(Len(s) + 1) :
    /\ i <= Len(t)
    /\ \A j \in 1..(i - 1) : s[j] = t[j]
    /\ i <= Len(s) => s[i] < t[i]

\* the member at s starts before the member at t in the source text
SourceBefore(s, t) == PathBefore(s, t)

\* the path of the container that holds the member at s
ContainerOf(s) == SubSeq(s, 1, Len(s) - 1)

\* the walk reaches the member at s before the member at t: the same
\* container and an earlier member, or a container visited earlier (a
\* container is visited, and scanned to its end, before the containers
\* inside its members)
WalkBefore(s, t) ==
  IF ContainerOf(s) = ContainerOf(t)
  THEN s[Len(s)] < t[Len(t)]
  ELSE PathBefore(ContainerOf(s), ContainerOf(t))

\* C17 as claimed: over a whole program the diagnostics are added in
\* source order, also when the earlier member lies in a container nested
\* inside an earlier member of the container that holds the later one.
C17_AsClaimed ==
  \A k, l \in 1..Len(diagnostics) :
    k < l => SourceBefore(diagnostics[k].span, diagnostics[l].span)

\* C17: over a whole program the diagnostics are added in the order of the
\* walk: those of one container in member order, and all of them before
\* the diagnostics of the containers nested inside its members.
C17_SinkCallsInWalkOrder ==
  \A k, l \in 1..Len(diagnostics) :
    k < l => WalkBefore(diagnostics[k].span, diagnostics[l].span)

\* member 3 of the root is reported before member 3 of the class inside
\* member 2 of the root
C17_Witness ==
  /\ Len(diagnostics) = 2
  /\ diagnostics[1].span = <<3>>
  /\ diagnostics[2].span = <<2, 3>>
  /\ SourceBefore(diagnostics[2].span, diagnostics[1].span)

(***************************************************************************)
(* Module items.                                                           *)
(***************************************************************************)
\* function name ... or export function name ...
IsFnItem(i) ==
  /\ items[i].node \in {"Stmt::Decl", "ModuleDecl::ExportDecl"}
  /\ items[i].decl = "Fn"

IsFnNamedLike(j, i) == IsFnItem(j) /\ items[j].sym = items[i].sym

\* C20: in a module or namespace block a function declaration, exported or
\* not, has the identity Method(name), so it is flagged, under its name,
\* exactly when an earlier function declaration (exported or not) has the
\* same name and the item just before it is not such a declaration; every
\* other module item (export of a class, type or variable, export default
\* function, import, export list) has no identity and is never flagged.
C20_ExportedAndPlainFunctionsAreOne ==
  container.kind \in {"Module", "TsModuleBlock"} =>
    \A i \in 1..N :
      /\ IsFnItem(i) =>
           /\ IdAt(i) = Method(items[i].sym)
           /\ (i \in Flagged) <=>
                /\ \E j \in 1..(i - 1) : IsFnNamedLike(j, i)
                /\ ~IsFnNamedLike(i - 1, i)
           /\ i \in Flagged => ReportedAs(i, items[i].sym)
      /\ ~IsFnItem(i) => IdAt(i) = None /\ i \notin Flagged

\* export function foo, function foo, function bar, function foo
C20_Witness ==
  /\ container.kind = "Module"
  /\ N = 4
  /\ items[1].node = "ModuleDecl::ExportDecl" /\ IsFnItem(1)
  /\ \A i \in {2, 3, 4} : items[i].node = "Stmt::Decl" /\ IsFnItem(i)
  /\ items[1].sym = "foo" /\ items[2].sym = "foo"
  /\ items[3].sym = "bar" /\ items[4].sym = "foo"
  /\ Flagged = {4}
  /\ ReportedAs(4, "foo")

(***************************************************************************)
(* Termination of the scan of a given member list.                         *)
(***************************************************************************)
\* the loop has taken the first N members of the list, each once, in order
TakenInOrder == N <= Len(members) /\ items = SubSeq(members, 1, N)

\* check() has returned
Returned == pc \in {"idle", "done"} /\ container.kind # "none"

\* C19: for every finite member list the scan takes the members front to
\* back, each exactly once (the members taken are always a prefix of the
\* list), returns only when it has taken them all, reports only members it
\* has taken, reports nothing for the empty list, and does return: a
\* member without identity does not end it.
C19_ScanTerminates ==
  /\ [](/\ TakenInOrder
        /\ Returned => items = members
        /\ Flagged \subseteq 1..N
        /\ members = <<>> => diagnostics = <<>>)
  /\ <>(pc = "done" /\ items = members)

\* foo, a statement without identity, bar, foo: scanned to the end, and
\* the member behind the gap is judged
C19_Witness ==
  /\ pc = "done"
  /\ N = 4
  /\ items = members
  /\ IdSeq = <<Method("foo"), None, Method("bar"), Method("foo")>>
  /\ Flagged = {4}

(***************************************************************************)
(* Interleaved scans.                                                      *)
(***************************************************************************)
\* the diagnostics anchored at members of the container at path, in the
\* order they were added, with the member index for the span
RelativeReportsOf(path) ==
  LET InPath(d) == ContainerOf(d.span) = path
      ds == SelectSeq(diagnostics, InPath)
  IN  [k \in 1..Len(ds) |-> Relative(ds[k])]

\* what the scan of these members produces when it runs alone
AloneReports(ms) ==
  ExpectedFrom([i \in 1..Len(ms) |-> get_method(ms[i])], Len(ms))

\* C18: however the per-member steps of two scans are interleaved, the
\* diagnostics of each container, in the order they were added, are those
\* the scan of that container's members produces alone.
C18_InterleavingKeepsResults ==
  /\ container.kind # "none" =>
       RelativeReportsOf(container.path) = AloneReports(items)
  /\ other.container.kind # "none" =>
       RelativeReportsOf(other.container.path) = AloneReports(other.items)

\* two class bodies under scan at once, foo in both: the first is reported
\* for its own foo, bar, foo, the second not for its first foo
C18_Witness ==
  /\ pc = "loop" /\ other.pc = "loop"
  /\ container.path = <<2>> /\ other.container.path = <<1>>
  /\ Len(other.items) = 3
  /\ AloneReports(other.items) # <<>>
  /\ RelativeReportsOf(<<1>>) = AloneReports(other.items)
  /\ N = 1
  /\ IdAt(1) = Method("foo")
  /\ Method("foo") \in other.seen_methods
  /\ RelativeReportsOf(<<2>>) = <<>>

(***************************************************************************)
(* The state of the scan.                                                  *)
(***************************************************************************)
\* the identities of the members consumed so far
IdentitiesSoFar == {IdAt(i) : i \in 1..N} \ {None}

\* the loop of one call of check() goes on: same container, one more member
SameScan ==
  /\ pc = "loop" /\ pc' = "loop"
  /\ container' = container
  /\ Len(items') = Len(items) + 1
  /\ SubSeq(items', 1, Len(items)) = items

\* C21: after every iteration of the loop seen_methods is exactly the set
\* of identities of the members consumed so far, last_method is the
\* optional identity of the member consumed last (None before the first
\* member and behind a member without identity), so it is None or in
\* seen_methods; and over the iterations of one scan seen_methods only
\* grows.
C21_ScanStateInvariant ==
  /\ [](/\ seen_methods = IdentitiesSoFar
        /\ last_method = IF N = 0 THEN None ELSE IdAt(N)
        /\ last_method = None \/ last_method \in seen_methods)
  /\ [][SameScan => seen_methods \subseteq seen_methods']_vars

\* foo, a member without identity, bar, foo: two identities seen, the
\* last one foo
C21_Witness ==
  /\ pc = "loop"
  /\ N = 4
  /\ IdSeq = <<Method("foo"), None, Method("bar"), Method("foo")>>
  /\ seen_methods = {Method("foo"), Method("bar")}
  /\ last_method = Method("foo")

\* C22: a flagged member is never the first member with its identity and
\* never the first or second member of its container, so a container of
\* n members has at most max(0, n - 2) diagnostics.
C22_FirstOccurrenceNeverFlagged ==
  /\ \A i \in Flagged :
       /\ i \in 3..N
       /\ \E j \in 1..(i - 1) : IdAt(j) = IdAt(i)
  /\ Len(Reports) <= (IF N >= 2 THEN N - 2 ELSE 0)

\* foo, bar, foo, bar, foo: five members, three diagnostics
C22_Witness ==
  /\ N = 5
  /\ Flagged = {3, 4, 5}
  /\ Len(Reports) = N - 2
  /\ IdAt(1) = IdAt(3) /\ IdAt(2) = IdAt(4) /\ IdAt(1) # IdAt(2)

====
